---------------------------- MODULE Spec2Model ----------------------------
(***************************************************************************)
(* The payment service of ShopEasy (supabase/functions/payments-simple):   *)
(* the three Paystack routes of one Deno.serve handler, the three tables   *)
(* they read and write, and the wall clock they read.                      *)
(*                                                                         *)
(* A request is a process that runs from one await to the next; every      *)
(* step between two awaits is one action, and each store operation         *)
(* (select, insert, update, upsert) is applied atomically by the database. *)
(* Time is kept to the calendar day: a Date is a record [y, m, d] with m   *)
(* in 1..12, and toISOString is the injective rendering of that record.    *)
(***************************************************************************)
EXTENDS Integers, Sequences, FiniteSets, TLC

VARIABLES
    paystackSecretKey,  \* index.ts:17, read once when the service starts
    payments,           \* table payments, keyed by reference
    subscriptions,      \* table subscriptions, a set of rows
    organizations,      \* table organizations, keyed by id
    now,                \* the wall clock read by new Date()
    ticks,              \* how many days the clock has advanced
    reqs,               \* the requests in flight and answered, by slot
    client,             \* the browser page that returns from the checkout
    accounts            \* auth.users, user_profiles and the create-user calls

vars == <<paystackSecretKey, payments, subscriptions, organizations, now, ticks, reqs, client,
         accounts>>

store == <<payments, subscriptions, organizations>>

----------------------------------------------------------------------------
(* Bounds of the model *)

MaxReqs == 2

MaxTicks == 1

\* Runs of verifyPaymentStatus on one page: the first and the retries
MaxRuns == 3

(* Program constants *)

MaxAttempts == 3

----------------------------------------------------------------------------
(* Values *)

Slots == 1..MaxReqs

References == {"R1", "R2"}

Orgs == {"O1"}

BillingCycles == {"monthly", "yearly", "weekly"}

TxIds == {"T1"}

NoSecret == "undefined"

Secrets == {"sk_live"}

NoPayment == [status |-> "absent"]

NoDate == [y |-> 0, m |-> 0, d |-> 0]

NoValue == "null"

----------------------------------------------------------------------------
(* The calendar arithmetic of Date.setMonth and Date.setFullYear *)

IsLeap(y) == (y % 4 = 0 /\ y % 100 # 0) \/ y % 400 = 0

DaysInMonth(y, m) ==
    IF m = 2 THEN (IF IsLeap(y) THEN 29 ELSE 28)
    ELSE IF m \in {4, 6, 9, 11} THEN 30 ELSE 31

(* A date whose month is in 1..13 and whose day may exceed the month's      *)
(* length, brought back to a calendar date the way the Date setters do:    *)
(* the excess months carry into the year, the excess days into the month.  *)
Normalise(y, m, d) ==
    LET y1 == IF m > 12 THEN y + 1 ELSE y
        m1 == IF m > 12 THEN m - 12 ELSE m
        len == DaysInMonth(y1, m1)
    IN  IF d <= len THEN [y |-> y1, m |-> m1, d |-> d]
        ELSE IF m1 = 12 THEN [y |-> y1 + 1, m |-> 1, d |-> d - len]
        ELSE [y |-> y1, m |-> m1 + 1, d |-> d - len]

\* endDate.setMonth(endDate.getMonth() + 1)
setMonthPlusOne(date) == Normalise(date.y, date.m + 1, date.d)

\* endDate.setFullYear(endDate.getFullYear() + 1)
setFullYearPlusOne(date) == Normalise(date.y + 1, date.m, date.d)

NextDay(date) == Normalise(date.y, date.m, date.d + 1)

DateLE(a, b) ==
    \/ a.y < b.y
    \/ a.y = b.y /\ a.m < b.m
    \/ a.y = b.y /\ a.m = b.m /\ a.d <= b.d

StartDates ==
    { [y |-> 2024, m |-> 1, d |-> 30],
      [y |-> 2024, m |-> 2, d |-> 28] }


----------------------------------------------------------------------------
(* Rows of the three tables *)

\* index.ts:172-182, the row initialize inserts
NewPayment(reference, meta) ==
    [ reference       |-> reference,
      provider        |-> "paystack",
      organization_id |-> meta.orgId,
      plan_id         |-> meta.planId,
      billing_cycle   |-> meta.billingCycle,
      amount          |-> meta.amount,
      currency        |-> "NGN",
      status          |-> "pending",
      verified_at     |-> NoDate,
      transaction_id  |-> NoValue ]

\* The row with the amount of the transaction the gateway reports (which
\* is in the currency's smallest unit) in place of the stored amount
SubscriptionDataGatewayAmount(payment, reference, startDate, endDate) ==
    [ organization_id   |-> payment.organization_id,
      plan_id           |-> payment.plan_id,
      billing_cycle     |-> payment.billing_cycle,
      status            |-> "active",
      start_date        |-> startDate,
      end_date          |-> endDate,
      amount            |-> payment.amount * 100,
      payment_reference |-> reference,
      provider          |-> "paystack" ]

\* index.ts:367-377 and 513-523, the row both confirmations upsert
SubscriptionData(payment, reference, startDate, endDate) ==
    [ organization_id   |-> payment.organization_id,
      plan_id           |-> payment.plan_id,
      billing_cycle     |-> payment.billing_cycle,
      status            |-> "active",
      start_date        |-> startDate,
      end_date          |-> endDate,
      amount            |-> payment.amount,
      payment_reference |-> reference,
      provider          |-> "paystack" ]

\* Upsert as a plain insert, without the conflict target
UpsertWithoutConflictTarget(rows, row) == rows \cup {row}

\* .upsert(row, { onConflict: 'organization_id' }): the row of that
\* organization is replaced, any other row is kept
Upsert(rows, row) ==
    {r \in rows : r.organization_id # row.organization_id} \cup {row}

\* index.ts:323-327 and 494-498: the three columns a confirmation writes
PaymentUpdate(row, status, at, id) ==
    [row EXCEPT !.status = status, !.verified_at = at, !.transaction_id = id]

\* The update without its .eq('reference', reference) filter: every row of
\* the table is written
UpdatePaymentsUnfiltered(table, reference, status, at, id) ==
    [r \in References |->
        IF table[r] # NoPayment
        THEN PaymentUpdate(table[r], status, at, id)
        ELSE table[r]]

\* .update(...).eq('reference', reference): every row with that reference,
\* whatever its present status. verified_at is read from the clock when
\* the update is sent, which is the day it is applied
UpdatePayments(table, reference, status, at, id) ==
    [r \in References |->
        IF r = reference /\ table[r] # NoPayment
        THEN PaymentUpdate(table[r], status, at, id)
        ELSE table[r]]

\* index.ts:402-407, the columns Organization Sync writes
OrganizationUpdate(org, planId, endDate) ==
    [org EXCEPT !.subscription_status   = "active",
                !.subscription_plan     = planId,
                !.subscription_end_date = endDate,
                !.trial_start_date      = NoValue]

TrialOrganization ==
    [ subscription_status   |-> "trial",
      subscription_plan     |-> NoValue,
      subscription_end_date |-> NoDate,
      trial_start_date      |-> "set" ]

----------------------------------------------------------------------------
(* The gateway and the webhook payloads *)

\* let paystackData = null, before the first answer
NoResponse ==
    [ok |-> FALSE, status |-> FALSE, data_status |-> NoValue, id |-> NoValue]

\* What GET /transaction/verify/:reference can answer: the HTTP status is
\* ok or not, the envelope's status is true or false, data.status is the
\* state of the transaction
GatewayResponses ==
    { [ok |-> TRUE, status |-> TRUE, data_status |-> st, id |-> id] :
          st \in {"success", "failed", "abandoned"}, id \in TxIds }
    \cup { [ok |-> FALSE, status |-> FALSE, data_status |-> "none", id |-> NoValue],
           [ok |-> TRUE,  status |-> FALSE, data_status |-> "none", id |-> NoValue] }

NoBody ==
    [json |-> FALSE, event |-> NoValue, hasData |-> FALSE,
     reference |-> NoValue, id |-> NoValue]

\* Request bodies of the webhook route: text that is not JSON, an event
\* without its data object, an event with data.reference and data.id
Bodies ==
    { NoBody }
    \cup { [json |-> TRUE, event |-> e, hasData |-> FALSE,
            reference |-> NoValue, id |-> NoValue] :
               e \in {"charge.success", "charge.failed"} }
    \cup { [json |-> TRUE, event |-> e, hasData |-> TRUE,
            reference |-> r, id |-> id] :
               e \in {"charge.success", "charge.failed"},
               r \in References, id \in TxIds }

\* index.ts:34-52: the hex digest is a function of the key and the
\* message, different for different keys or messages
createHmacSha512(secret, message) ==
    [present |-> TRUE, key |-> secret, msg |-> message]

\* req.headers.get('x-paystack-signature') is null without the header
NoSignature == [present |-> FALSE, key |-> NoValue, msg |-> NoBody]

\* A body other than b, for a signature that was made for another body
Tampered(b) == IF b = NoBody THEN CHOOSE x \in Bodies : x # NoBody ELSE NoBody

Signatures(b) ==
    { NoSignature,
      createHmacSha512("sk_live", b),
      createHmacSha512("sk_forged", b),
      createHmacSha512("sk_live", Tampered(b)) }


----------------------------------------------------------------------------
(* Requests *)

NoMeta == [orgId |-> NoValue, planId |-> NoValue, billingCycle |-> NoValue, amount |-> 0]

\* metadata{orgId, planId, billingCycle} and amount of an initialize request
Metas ==
    { [orgId |-> o, planId |-> "basic", billingCycle |-> c, amount |-> 5000] :
          o \in Orgs, c \in BillingCycles }
    \cup { [orgId |-> o, planId |-> "pro", billingCycle |-> "yearly", amount |-> 5000] :
          o \in Orgs }

\* A slot no request has taken yet; the locals of the three handlers
IdleReq ==
    [ kind         |-> "none",
      pc           |-> "idle",
      http         |-> 0,
      reference    |-> NoValue,
      authHeader   |-> NoValue,
      metadata     |-> NoMeta,
      signature    |-> NoSignature,
      body         |-> NoBody,
      attempts     |-> 0,
      paystackData |-> NoResponse,
      received     |-> NoResponse,
      payment      |-> NoPayment,
      startDate    |-> NoDate,
      endDate      |-> NoDate,
      upsert       |-> "none",
      orgUpdate    |-> "none" ]

\* return new Response(..., { status }): the request is over and the
\* inputs it held are gone; what stays is what the caller and the logs
\* saw of it
Answered(r, status) ==
    [IdleReq EXCEPT !.kind = r.kind, !.pc = "done", !.http = status,
                    !.reference = r.reference, !.attempts = r.attempts,
                    !.paystackData = r.paystackData,
                    !.received = r.received,
                    !.startDate = r.startDate, !.endDate = r.endDate,
                    !.upsert = r.upsert, !.orgUpdate = r.orgUpdate]

Respond(p, r, status) == reqs' = [reqs EXCEPT ![p] = Answered(r, status)]

\* Slots are taken in order
CanStart(p) ==
    /\ reqs[p].pc = "idle"
    /\ \A q \in Slots : q < p => reqs[q].pc # "idle"

----------------------------------------------------------------------------
(* The state when the service starts: the clock at some day, the gateway  *)
(* key set or not, every organization on trial, and in the payments table *)
(* what earlier checkouts left: nothing, R1 pending, or R1 and R2 pending *)
(* for the same organization.                                              *)

InitialPayments ==
    { [r \in References |-> IF r = "R1" THEN row ELSE NoPayment] :
          row \in {NoPayment} \cup
                  { NewPayment("R1", m) : m \in {x \in Metas : x.planId = "basic"} } }
    \cup
    { [r \in References |->
          IF r = "R1"
          THEN NewPayment("R1", [orgId |-> "O1", planId |-> "basic",
                                 billingCycle |-> "monthly", amount |-> 5000])
          ELSE NewPayment("R2", [orgId |-> "O1", planId |-> "pro",
                                 billingCycle |-> "yearly", amount |-> 5000])] }

\* part_002:20-31: a create-user call before it arrives; authUserId is
\* authData.user.id once the auth user has been created
NoCall == [pc |-> "idle", email |-> NoValue, http |-> 0, authUserId |-> NoValue]

\* No auth user, no profile, no call
NoAccounts ==
    [authUsers |-> {}, user_profiles |-> {}, calls |-> [p \in Slots |-> NoCall]]

\* The pendingPayment entry of a browser storage: absent, a text that is
\* not JSON, or the JSON the checkout page stored
NoPending ==
    [present |-> FALSE, json |-> FALSE, reference |-> NoValue,
     provider |-> NoValue, planId |-> NoValue, billingCycle |-> NoValue]

PendingPayments ==
    { NoPending,
      [NoPending EXCEPT !.present = TRUE],
      [present |-> TRUE, json |-> TRUE, reference |-> "R1",
       provider |-> "paystack", planId |-> "basic", billingCycle |-> "monthly"],
      [present |-> TRUE, json |-> TRUE, reference |-> "R2",
       provider |-> "paystack", planId |-> "pro", billingCycle |-> "yearly"] }

\* part_000:19, useState(null)
NoDetails ==
    [reference |-> NoValue, provider |-> NoValue,
     planId |-> NoValue, billingCycle |-> NoValue]

\* What verifyPayment resolved to in the run; none before the first answer
NoResult == [success |-> FALSE, status |-> NoValue, threw |-> FALSE]

VerifyResults ==
    { [success |-> TRUE,  status |-> "success", threw |-> FALSE],
      [success |-> TRUE,  status |-> "failed",  threw |-> FALSE],
      [success |-> FALSE, status |-> NoValue,   threw |-> FALSE],
      [success |-> FALSE, status |-> NoValue,   threw |-> TRUE] }

\* part_000:18-20 and part_001:28-31: the state of the two components as
\* useState creates it, with the URL and the storages the page opens with
NoClient ==
    [ page           |-> "none",
      reference      |-> NoValue,
      transactionId  |-> NoValue,
      urlStatus      |-> NoValue,
      sessionStorage |-> NoPending,
      localStorage   |-> NoPending,
      orgId          |-> NoValue,
      subscriptionStatus |-> "trial",
      subscriptionPlan   |-> NoValue,
      loading        |-> TRUE,
      redirectTimer  |-> FALSE,
      paymentDetails |-> NoDetails,
      verifying      |-> TRUE,
      status         |-> NoValue,
      error          |-> NoValue,
      pc             |-> "idle",
      runs           |-> 0,
      result         |-> NoResult ]

Init ==
    /\ paystackSecretKey \in Secrets \cup {NoSecret}
    /\ payments \in InitialPayments
    /\ subscriptions = {}
    /\ organizations = [o \in Orgs |-> TrialOrganization]
    /\ now \in StartDates
    /\ ticks = 0
    /\ reqs = [p \in Slots |-> IdleReq]
    /\ client = NoClient
    /\ accounts = NoAccounts

\* Time passes between any two steps
Tick ==
    /\ ticks < MaxTicks
    /\ ticks' = ticks + 1
    /\ now' = NextDay(now)
    /\ UNCHANGED <<accounts, client, paystackSecretKey, payments, subscriptions, organizations, reqs>>


----------------------------------------------------------------------------
(* POST /paystack/initialize, index.ts:92-199 *)

AuthHeaders == {"none", "invalid", "valid"}

\* The request arrives with its Authorization header and its JSON body
InitializeArrive(p) ==
    /\ CanStart(p)
    /\ \E h \in AuthHeaders, ref \in References, m \in Metas :
          reqs' = [reqs EXCEPT ![p] =
                     [IdleReq EXCEPT !.kind = "initialize", !.pc = "iAuth",
                                     !.authHeader = h, !.reference = ref,
                                     !.metadata = m]]
    /\ UNCHANGED <<accounts, client, paystackSecretKey, payments, subscriptions, organizations, now, ticks>>

\* InitializeAuth without the getUser test of index.ts:106-117: a header
\* is enough, whatever token it carries
InitializeAuthHeaderOnly(p) ==
    LET r == reqs[p] IN
    /\ r.pc = "iAuth"
    /\ IF r.authHeader = "none" THEN Respond(p, r, 401)
       ELSE IF paystackSecretKey = NoSecret THEN Respond(p, r, 500)
       ELSE reqs' = [reqs EXCEPT ![p].pc = "iGateway"]
    /\ UNCHANGED <<accounts, client, paystackSecretKey, payments, subscriptions, organizations, now, ticks>>

\* index.ts:96-153: the header, the token, the gateway key, then the call
\* to the gateway's initialize
InitializeAuth(p) ==
    LET r == reqs[p] IN
    /\ r.pc = "iAuth"
    /\ IF r.authHeader = "none" THEN Respond(p, r, 401)
       ELSE IF r.authHeader = "invalid" THEN Respond(p, r, 401)
       ELSE IF paystackSecretKey = NoSecret THEN Respond(p, r, 500)
       ELSE reqs' = [reqs EXCEPT ![p].pc = "iGateway"]
    /\ UNCHANGED <<accounts, client, paystackSecretKey, payments, subscriptions, organizations, now, ticks>>

\* index.ts:155-182: the gateway answers (or the fetch throws); on success
\* the insert of the pending row is sent
InitializeGateway(p) ==
    LET r == reqs[p] IN
    /\ r.pc = "iGateway"
    /\ \E outcome \in {"ok", "rejected", "unreachable"} :
          IF outcome = "unreachable" THEN Respond(p, r, 500)
          ELSE IF outcome = "rejected" THEN Respond(p, r, 400)
          ELSE reqs' = [reqs EXCEPT ![p].pc = "iInsert"]
    /\ UNCHANGED <<accounts, client, paystackSecretKey, payments, subscriptions, organizations, now, ticks>>

\* index.ts:172-198: the insert is applied or fails (a reference already
\* stored, or the store refusing it); the answer is a success either way
InitializeInsert(p) ==
    LET r == reqs[p] IN
    /\ r.pc = "iInsert"
    /\ \E outcome \in {"ok", "error"} :
          IF outcome = "ok" /\ payments[r.reference] = NoPayment
          THEN payments' = [payments EXCEPT
                              ![r.reference] = NewPayment(r.reference, r.metadata)]
          ELSE payments' = payments
    /\ Respond(p, r, 200)
    /\ UNCHANGED <<accounts, client, paystackSecretKey, subscriptions, organizations, now, ticks>>

----------------------------------------------------------------------------
(* GET /paystack/verify/:reference, index.ts:204-438 *)

\* index.ts:255
VerificationSucceeded(resp) ==
    resp.ok /\ resp.status /\ resp.data_status = "success"

\* index.ts:268
VerificationFailed(resp) == ~resp.ok \/ ~resp.status

\* index.ts:324
VerifiedStatus(resp) ==
    IF resp.data_status = "success" THEN "completed" ELSE "failed"

\* index.ts:352-362
VerifyEndDate(billing_cycle, date) ==
    IF billing_cycle = "monthly" THEN setMonthPlusOne(date)
    ELSE IF billing_cycle = "yearly" THEN setFullYearPlusOne(date)
    ELSE setMonthPlusOne(date)

\* VerifyStart with the select of index.ts:290-294 moved in front of the
\* loop: the payment record is read before the first gateway call
VerifyStartSelectsFirst(p) ==
    /\ CanStart(p)
    /\ \E ref \in References \cup {""} :
          LET r == [IdleReq EXCEPT !.kind = "verify", !.reference = ref] IN
          IF ref = "" THEN Respond(p, r, 400)
          ELSE IF paystackSecretKey = NoSecret THEN Respond(p, r, 500)
          ELSE reqs' = [reqs EXCEPT ![p] =
                          [r EXCEPT !.pc = "vPoll", !.attempts = 1,
                                    !.payment = payments[ref]]]
    /\ UNCHANGED <<accounts, client, paystackSecretKey, payments, subscriptions, organizations, now, ticks>>

\* VerifyStart without the key check of index.ts:221-227: the loop is
\* entered and the gateway is called with 'Bearer undefined'
VerifyStartWithoutKeyCheck(p) ==
    /\ CanStart(p)
    /\ \E ref \in References \cup {""} :
          LET r == [IdleReq EXCEPT !.kind = "verify", !.reference = ref] IN
          IF ref = "" THEN Respond(p, r, 400)
          ELSE reqs' = [reqs EXCEPT ![p] = [r EXCEPT !.pc = "vPoll", !.attempts = 1]]
    /\ UNCHANGED <<accounts, client, paystackSecretKey, payments, subscriptions, organizations, now, ticks>>

\* index.ts:205-245: the reference of the path, the gateway key, then the
\* first call of the polling loop
VerifyStart(p) ==
    /\ CanStart(p)
    /\ \E ref \in References \cup {""} :
          LET r == [IdleReq EXCEPT !.kind = "verify", !.reference = ref] IN
          IF ref = "" THEN Respond(p, r, 400)
          ELSE IF paystackSecretKey = NoSecret THEN Respond(p, r, 500)
          ELSE reqs' = [reqs EXCEPT ![p] = [r EXCEPT !.pc = "vPoll", !.attempts = 1]]
    /\ UNCHANGED <<accounts, client, paystackSecretKey, payments, subscriptions, organizations, now, ticks>>

\* index.ts:268-294, after the loop: a failed verification is answered
\* 400, otherwise the payment record is selected
AfterLoop(p, r) ==
    IF VerificationFailed(r.paystackData) THEN Respond(p, r, 400)
    ELSE reqs' = [reqs EXCEPT ![p] = [r EXCEPT !.pc = "vSelect"]]

\* VerifyAttempt with a second break: the loop is left at once on an
\* answer whose transaction status is failed
VerifyAttemptStopsOnFailed(p) ==
    LET r == reqs[p] IN
    /\ r.pc = "vPoll"
    /\ \/ Respond(p, r, 500)
       \/ \E resp \in GatewayResponses :
             LET r1 == [r EXCEPT !.paystackData = resp, !.received = resp] IN
             IF VerificationSucceeded(resp) \/ resp.data_status = "failed"
             THEN AfterLoop(p, r1)
             ELSE IF r.attempts < MaxAttempts
                  THEN reqs' = [reqs EXCEPT ![p] = [r1 EXCEPT !.pc = "vWait"]]
                  ELSE AfterLoop(p, r1)
    /\ UNCHANGED <<accounts, client, paystackSecretKey, payments, subscriptions, organizations, now, ticks>>

\* index.ts:240-265: one answer of the gateway inside the loop; received is
\* the body the gateway sent, paystackData the variable the handler keeps
VerifyAttempt(p) ==
    LET r == reqs[p] IN
    /\ r.pc = "vPoll"
    /\ \/ Respond(p, r, 500)                                  \* the fetch throws
       \/ \E resp \in GatewayResponses :
             LET r1 == [r EXCEPT !.paystackData = resp, !.received = resp] IN
             IF VerificationSucceeded(resp) THEN AfterLoop(p, r1)
             ELSE IF r.attempts < MaxAttempts
                  THEN reqs' = [reqs EXCEPT ![p] = [r1 EXCEPT !.pc = "vWait"]]
                  ELSE AfterLoop(p, r1)
    /\ UNCHANGED <<accounts, client, paystackSecretKey, payments, subscriptions, organizations, now, ticks>>

\* VerifyDelay without the attempts++ of index.ts:237: the loop goes round
\* and the count of calls stays where it was
VerifyDelayWithoutCount(p) ==
    LET r == reqs[p] IN
    /\ r.pc = "vWait"
    /\ reqs' = [reqs EXCEPT ![p] = [r EXCEPT !.pc = "vPoll"]]
    /\ UNCHANGED <<accounts, client, paystackSecretKey, payments, subscriptions, organizations, now, ticks>>

\* index.ts:261-264 and 236-245: the two seconds are over, the loop goes
\* round and calls the gateway again
VerifyDelay(p) ==
    LET r == reqs[p] IN
    /\ r.pc = "vWait"
    /\ r.attempts < MaxAttempts
    /\ reqs' = [reqs EXCEPT ![p] = [r EXCEPT !.pc = "vPoll", !.attempts = r.attempts + 1]]
    /\ UNCHANGED <<accounts, client, paystackSecretKey, payments, subscriptions, organizations, now, ticks>>

\* VerifySelect without the early return of index.ts:296-311: with no row
\* the update matches nothing, the branch of index.ts:421 logs, and the
\* request is answered at index.ts:428
VerifySelectWithoutReturn(p) ==
    LET r == reqs[p] IN
    /\ r.pc = "vSelect"
    /\ \E outcome \in {"ok", "error"} :
          IF outcome = "error" \/ payments[r.reference] = NoPayment
          THEN Respond(p, r, 200)
          ELSE reqs' = [reqs EXCEPT ![p] =
                          [r EXCEPT !.pc = "vUpdate", !.payment = payments[r.reference]]]
    /\ UNCHANGED <<accounts, client, paystackSecretKey, payments, subscriptions, organizations, now, ticks>>

\* index.ts:290-328: the select answers; without a row (or with an error)
\* the answer is 404, otherwise the update of the row is sent
VerifySelect(p) ==
    LET r == reqs[p] IN
    /\ r.pc = "vSelect"
    /\ \E outcome \in {"ok", "error"} :
          IF outcome = "error" \/ payments[r.reference] = NoPayment
          THEN Respond(p, r, 404)
          ELSE reqs' = [reqs EXCEPT ![p] =
                          [r EXCEPT !.pc = "vUpdate", !.payment = payments[r.reference]]]
    /\ UNCHANGED <<accounts, client, paystackSecretKey, payments, subscriptions, organizations, now, ticks>>

\* VerifyUpdate without the guard of index.ts:337: the upsert is sent
\* whatever status the gateway reported
VerifyUpdateWithoutGuard(p) ==
    LET r == reqs[p] IN
    /\ r.pc = "vUpdate"
    /\ \E outcome \in {"ok", "error"} :
          payments' = IF outcome = "ok"
                      THEN UpdatePayments(payments, r.reference,
                               VerifiedStatus(r.paystackData), now, r.paystackData.id)
                      ELSE payments
    /\ reqs' = [reqs EXCEPT ![p] =
                  [r EXCEPT !.pc = "vUpsert", !.startDate = now,
                            !.endDate = VerifyEndDate(r.payment.billing_cycle, now)]]
    /\ UNCHANGED <<accounts, client, paystackSecretKey, subscriptions, organizations, now, ticks>>

\* index.ts:321-384: the update is applied or fails; then, for a success
\* of the gateway, the period is computed and the upsert is sent,
\* otherwise the request is answered (index.ts:423-437)
VerifyUpdate(p) ==
    LET r == reqs[p] IN
    /\ r.pc = "vUpdate"
    /\ \E outcome \in {"ok", "error"} :
          payments' = IF outcome = "ok"
                      THEN UpdatePayments(payments, r.reference,
                               VerifiedStatus(r.paystackData), now, r.paystackData.id)
                      ELSE payments
    /\ IF r.paystackData.data_status = "success"
       THEN reqs' = [reqs EXCEPT ![p] =
                       [r EXCEPT !.pc = "vUpsert", !.startDate = now,
                                 !.endDate = VerifyEndDate(r.payment.billing_cycle, now)]]
       ELSE Respond(p, r, 200)
    /\ UNCHANGED <<accounts, client, paystackSecretKey, subscriptions, organizations, now, ticks>>

\* VerifyUpsert without the else of index.ts:386-391: the update of the
\* organization is sent whether the upsert was applied or failed
VerifyUpsertThenAlwaysSync(p) ==
    LET r == reqs[p] IN
    /\ r.pc = "vUpsert"
    /\ \E outcome \in {"ok", "error"} :
          /\ subscriptions' =
                IF outcome = "ok"
                THEN Upsert(subscriptions,
                        SubscriptionData(r.payment, r.reference, r.startDate, r.endDate))
                ELSE subscriptions
          /\ reqs' = [reqs EXCEPT ![p] = [r EXCEPT !.pc = "vOrg", !.upsert = outcome]]
    /\ UNCHANGED <<accounts, client, paystackSecretKey, payments, organizations, now, ticks>>

\* VerifyUpsert with the failure of the upsert failing the request: the
\* error is answered 500 in place of the log of index.ts:386-388
VerifyUpsertFailsRequest(p) ==
    LET r == reqs[p] IN
    /\ r.pc = "vUpsert"
    /\ \E outcome \in {"ok", "error"} :
          IF outcome = "ok"
          THEN /\ subscriptions' = Upsert(subscriptions,
                      SubscriptionData(r.payment, r.reference, r.startDate, r.endDate))
               /\ reqs' = [reqs EXCEPT ![p] = [r EXCEPT !.pc = "vOrg", !.upsert = "ok"]]
          ELSE /\ subscriptions' = subscriptions
               /\ Respond(p, [r EXCEPT !.upsert = "error"], 500)
    /\ UNCHANGED <<accounts, client, paystackSecretKey, payments, organizations, now, ticks>>

\* index.ts:380-408: the upsert is applied, and then the update of the
\* organization is sent, or it fails, and then the request is answered
VerifyUpsert(p) ==
    LET r == reqs[p] IN
    /\ r.pc = "vUpsert"
    /\ \E outcome \in {"ok", "error"} :
          IF outcome = "ok"
          THEN /\ subscriptions' = Upsert(subscriptions,
                      SubscriptionData(r.payment, r.reference, r.startDate, r.endDate))
               /\ reqs' = [reqs EXCEPT ![p] = [r EXCEPT !.pc = "vOrg", !.upsert = "ok"]]
          ELSE /\ subscriptions' = subscriptions
               /\ Respond(p, [r EXCEPT !.upsert = "error"], 200)
    /\ UNCHANGED <<accounts, client, paystackSecretKey, payments, organizations, now, ticks>>

\* VerifyOrgUpdate without the try/catch of index.ts:399-419: what the
\* update throws reaches the catch of index.ts:558
VerifyOrgUpdateUncaught(p) ==
    LET r == reqs[p] IN
    /\ r.pc = "vOrg"
    /\ \E outcome \in {"ok", "error", "throw"} :
          /\ organizations' =
                IF outcome = "ok"
                THEN [organizations EXCEPT ![r.payment.organization_id] =
                        OrganizationUpdate(@, r.payment.plan_id, r.endDate)]
                ELSE organizations
          /\ Respond(p, [r EXCEPT !.orgUpdate = outcome],
                     IF outcome = "throw" THEN 500 ELSE 200)
    /\ UNCHANGED <<accounts, client, paystackSecretKey, payments, subscriptions, now, ticks>>

\* index.ts:399-437: the update of the organization is applied, returns an
\* error or throws; the request is answered the same in the three cases
VerifyOrgUpdate(p) ==
    LET r == reqs[p] IN
    /\ r.pc = "vOrg"
    /\ \E outcome \in {"ok", "error", "throw"} :
          /\ organizations' =
                IF outcome = "ok"
                THEN [organizations EXCEPT ![r.payment.organization_id] =
                        OrganizationUpdate(@, r.payment.plan_id, r.endDate)]
                ELSE organizations
          /\ Respond(p, [r EXCEPT !.orgUpdate = outcome], 200)
    /\ UNCHANGED <<accounts, client, paystackSecretKey, payments, subscriptions, now, ticks>>


----------------------------------------------------------------------------
(* POST /paystack/webhook, index.ts:443-542 *)

\* The comparison skipped when the header is absent
SignatureMatchesOrAbsent(hash, signature) ==
    hash = signature \/ ~signature.present

\* index.ts:461, hash !== signature negated
SignatureMatches(hash, signature) == hash = signature

\* Every charge event taken for a successful charge
IsProcessedAnyCharge(event) == event \in {"charge.success", "charge.failed"}

\* index.ts:475
IsProcessed(event) == event = "charge.success"

\* index.ts:507-511
WebhookEndDate(billing_cycle, date) ==
    IF billing_cycle = "monthly" THEN setMonthPlusOne(date)
    ELSE setFullYearPlusOne(date)

\* The request arrives with its signature header and its body
WebhookArrive(p) ==
    /\ CanStart(p)
    /\ \E b \in Bodies : \E sig \in Signatures(b) :
          reqs' = [reqs EXCEPT ![p] =
                     [IdleReq EXCEPT !.kind = "webhook", !.pc = "wReceived",
                                     !.signature = sig, !.body = b]]
    /\ UNCHANGED <<accounts, client, paystackSecretKey, payments, subscriptions, organizations, now, ticks>>

\* WebhookReceive with the key check of index.ts:446-452 left out: without
\* a key the signature is not verified and the event is processed
WebhookReceiveUnverifiedWithoutKey(p) ==
    LET r == reqs[p] IN
    /\ r.pc = "wReceived"
    /\ IF /\ paystackSecretKey # NoSecret
          /\ ~SignatureMatches(createHmacSha512(paystackSecretKey, r.body), r.signature)
       THEN Respond(p, r, 401)
       ELSE IF ~r.body.json THEN Respond(p, r, 500)
       ELSE IF ~IsProcessed(r.body.event) THEN Respond(p, r, 200)
       ELSE IF ~r.body.hasData THEN Respond(p, r, 500)
       ELSE reqs' = [reqs EXCEPT ![p] =
                       [r EXCEPT !.pc = "wSelect", !.reference = r.body.reference]]
    /\ UNCHANGED <<accounts, client, paystackSecretKey, payments, subscriptions, organizations, now, ticks>>

\* index.ts:446-486: the gateway key, the signature, JSON.parse (which
\* throws on text that is not JSON), the event type, event.data.reference
\* (which throws without event.data), then the select of the payment
\* record; what is thrown is caught at index.ts:558 and answered 500
WebhookReceive(p) ==
    LET r == reqs[p] IN
    /\ r.pc = "wReceived"
    /\ IF paystackSecretKey = NoSecret THEN Respond(p, r, 500)
       ELSE IF ~SignatureMatches(createHmacSha512(paystackSecretKey, r.body), r.signature)
            THEN Respond(p, r, 401)
       ELSE IF ~r.body.json THEN Respond(p, r, 500)
       ELSE IF ~IsProcessed(r.body.event) THEN Respond(p, r, 200)
       ELSE IF ~r.body.hasData THEN Respond(p, r, 500)
       ELSE reqs' = [reqs EXCEPT ![p] =
                       [r EXCEPT !.pc = "wSelect", !.reference = r.body.reference]]
    /\ UNCHANGED <<accounts, client, paystackSecretKey, payments, subscriptions, organizations, now, ticks>>

\* WebhookSelect with the update of index.ts:492-499 turned into an upsert
\* by reference: without a row, a completed record is created from the event
WebhookSelectCreatesRecord(p) ==
    LET r == reqs[p] IN
    /\ r.pc = "wSelect"
    /\ \E outcome \in {"ok", "error"} :
          IF outcome = "error"
          THEN /\ Respond(p, r, 200)
               /\ payments' = payments
          ELSE IF payments[r.reference] = NoPayment
          THEN /\ \E m \in Metas :
                     payments' = [payments EXCEPT ![r.reference] =
                                    PaymentUpdate(NewPayment(r.reference, m),
                                                  "completed", now, r.body.id)]
               /\ Respond(p, r, 200)
          ELSE /\ reqs' = [reqs EXCEPT ![p] =
                             [r EXCEPT !.pc = "wUpdate", !.payment = payments[r.reference]]]
               /\ payments' = payments
    /\ UNCHANGED <<accounts, client, paystackSecretKey, subscriptions, organizations, now, ticks>>

\* index.ts:482-499: the select answers; without a row the event is
\* acknowledged, otherwise the update of the row is sent
WebhookSelect(p) ==
    LET r == reqs[p] IN
    /\ r.pc = "wSelect"
    /\ \E outcome \in {"ok", "error"} :
          IF outcome = "error" \/ payments[r.reference] = NoPayment
          THEN Respond(p, r, 200)
          ELSE reqs' = [reqs EXCEPT ![p] =
                          [r EXCEPT !.pc = "wUpdate", !.payment = payments[r.reference]]]
    /\ UNCHANGED <<accounts, client, paystackSecretKey, payments, subscriptions, organizations, now, ticks>>

\* index.ts:492-523: the update is applied or fails (its result is not
\* read); then the period is computed and the upsert is sent
WebhookUpdate(p) ==
    LET r == reqs[p] IN
    /\ r.pc = "wUpdate"
    /\ \E outcome \in {"ok", "error"} :
          payments' = IF outcome = "ok"
                      THEN UpdatePayments(payments, r.reference, "completed", now, r.body.id)
                      ELSE payments
    /\ reqs' = [reqs EXCEPT ![p] =
                  [r EXCEPT !.pc = "wUpsert", !.startDate = now,
                            !.endDate = WebhookEndDate(r.payment.billing_cycle, now)]]
    /\ UNCHANGED <<accounts, client, paystackSecretKey, subscriptions, organizations, now, ticks>>

\* index.ts:513-541: the upsert is applied or fails; the event is
\* acknowledged
WebhookUpsert(p) ==
    LET r == reqs[p] IN
    /\ r.pc = "wUpsert"
    /\ \E outcome \in {"ok", "error"} :
          /\ subscriptions' =
                IF outcome = "ok"
                THEN Upsert(subscriptions,
                        SubscriptionData(r.payment, r.reference, r.startDate, r.endDate))
                ELSE subscriptions
          /\ Respond(p, [r EXCEPT !.upsert = outcome], 200)
    /\ UNCHANGED <<accounts, client, paystackSecretKey, payments, organizations, now, ticks>>

----------------------------------------------------------------------------
(* The service: requests of the three routes in any number up to MaxReqs, *)
(* their steps interleaved in any order, the clock advancing in between.  *)

Initialize(p) ==
    \/ InitializeArrive(p)
    \/ InitializeAuth(p)
    \/ InitializeGateway(p)
    \/ InitializeInsert(p)

Verify(p) ==
    \/ VerifyStart(p)
    \/ VerifyAttempt(p)
    \/ VerifyDelay(p)
    \/ VerifySelect(p)
    \/ VerifyUpdate(p)
    \/ VerifyUpsert(p)
    \/ VerifyOrgUpdate(p)

Webhook(p) ==
    \/ WebhookArrive(p)
    \/ WebhookReceive(p)
    \/ WebhookSelect(p)
    \/ WebhookUpdate(p)
    \/ WebhookUpsert(p)

Next ==
    \/ Tick
    \/ \E p \in Slots : Initialize(p)
    \/ \E p \in Slots : Verify(p)
    \/ \E p \in Slots : Webhook(p)

Spec == Init /\ [][Next]_vars

\* The verify requests alone, each of them run on: the runtime resumes a
\* handler when the promise it awaits settles (the gateway answers or the
\* fetch throws, the two seconds' timer fires, the store answers)
PollNext == \E p \in Slots : Verify(p)

PollSpec ==
    /\ Init
    /\ [][PollNext]_vars
    /\ \A p \in Slots : WF_vars(Verify(p))

----------------------------------------------------------------------------
(* The page the gateway sends the customer back to: PaymentCallback         *)
(* (part_000) and the PaymentVerification it renders (part_001:1-225)       *)

\* a || b on values of which NoValue is the falsy one
Or(a, b) == IF a # NoValue THEN a ELSE b

\* PaymentCallbackMount with the storage cleared as soon as the entry has
\* been read, against the comment of part_000:82-83
PaymentCallbackMountClearsStorage ==
    LET c == client
        final == IF c.sessionStorage.present THEN c.sessionStorage ELSE c.localStorage
    IN
    /\ c.page = "callback" /\ c.loading
    /\ client' =
          IF c.reference = NoValue /\ c.transactionId = NoValue
          THEN [c EXCEPT !.loading = FALSE, !.redirectTimer = TRUE]
          ELSE IF final.present
          THEN IF ~final.json
               THEN [c EXCEPT !.loading = FALSE]
               ELSE [c EXCEPT !.loading = FALSE, !.page = "verification",
                       !.sessionStorage = NoPending, !.localStorage = NoPending,
                       !.paymentDetails =
                           [reference    |-> Or(c.reference, Or(c.transactionId, final.reference)),
                            provider     |-> final.provider,
                            planId       |-> final.planId,
                            billingCycle |-> final.billingCycle]]
          ELSE [c EXCEPT !.loading = FALSE, !.page = "verification",
                  !.paymentDetails =
                      [reference    |-> Or(c.reference, c.transactionId),
                       provider     |-> IF c.urlStatus # NoValue
                                        THEN "flutterwave" ELSE "paystack",
                       planId       |-> "unknown",
                       billingCycle |-> "monthly"]]
    /\ UNCHANGED <<accounts, paystackSecretKey, payments, subscriptions, organizations, now, ticks, reqs>>

\* PaymentCallbackMount without the branch of part_000:61-69: with no
\* reference in the URL the effect goes on to the payment details
PaymentCallbackMountWithoutReturn ==
    LET c == client
        final == IF c.sessionStorage.present THEN c.sessionStorage ELSE c.localStorage
    IN
    /\ c.page = "callback" /\ c.loading
    /\ client' =
          IF final.present
          THEN IF ~final.json
               THEN [c EXCEPT !.loading = FALSE]
               ELSE [c EXCEPT !.loading = FALSE, !.page = "verification",
                       !.paymentDetails =
                           [reference    |-> Or(c.reference, Or(c.transactionId, final.reference)),
                            provider     |-> final.provider,
                            planId       |-> final.planId,
                            billingCycle |-> final.billingCycle]]
          ELSE [c EXCEPT !.loading = FALSE, !.page = "verification",
                  !.paymentDetails =
                      [reference    |-> Or(c.reference, c.transactionId),
                       provider     |-> IF c.urlStatus # NoValue
                                        THEN "flutterwave" ELSE "paystack",
                       planId       |-> "unknown",
                       billingCycle |-> "monthly"]]
    /\ UNCHANGED <<accounts, paystackSecretKey, payments, subscriptions, organizations, now, ticks, reqs>>

\* part_000:22-100, the effect of PaymentCallback: the URL parameters, the
\* pendingPayment entry of sessionStorage or else of localStorage, then the
\* props of PaymentVerification; JSON.parse throws on a text that is not
\* JSON and the catch only ends the loading
PaymentCallbackMount ==
    LET c == client
        final == IF c.sessionStorage.present THEN c.sessionStorage ELSE c.localStorage
    IN
    /\ c.page = "callback" /\ c.loading
    /\ client' =
          IF c.reference = NoValue /\ c.transactionId = NoValue
          THEN [c EXCEPT !.loading = FALSE, !.redirectTimer = TRUE]
          ELSE IF final.present
          THEN IF ~final.json
               THEN [c EXCEPT !.loading = FALSE]
               ELSE [c EXCEPT !.loading = FALSE, !.page = "verification",
                       !.paymentDetails =
                           [reference    |-> Or(c.reference, Or(c.transactionId, final.reference)),
                            provider     |-> final.provider,
                            planId       |-> final.planId,
                            billingCycle |-> final.billingCycle]]
          ELSE [c EXCEPT !.loading = FALSE, !.page = "verification",
                  !.paymentDetails =
                      [reference    |-> Or(c.reference, c.transactionId),
                       provider     |-> IF c.urlStatus # NoValue
                                        THEN "flutterwave" ELSE "paystack",
                       planId       |-> "unknown",
                       billingCycle |-> "monthly"]]
    /\ UNCHANGED <<accounts, paystackSecretKey, payments, subscriptions, organizations, now, ticks, reqs>>

\* part_000:64-66: the two seconds of the timer the effect set are over
\* and the page goes to the dashboard
RedirectToDashboard ==
    /\ client.page = "callback" /\ client.redirectTimer
    /\ client' = [client EXCEPT !.page = "dashboard"]
    /\ UNCHANGED <<accounts, paystackSecretKey, payments, subscriptions, organizations, now, ticks, reqs>>

\* part_001:37-49, the start of verifyPaymentStatus
StartRun(c) ==
    [c EXCEPT !.verifying = TRUE, !.error = NoValue, !.pc = "delay",
              !.runs = c.runs + 1, !.result = NoResult]

\* part_001:33-35, the effect of PaymentVerification
VerificationMount ==
    /\ client.page = "verification" /\ client.runs = 0 /\ client.pc = "idle"
    /\ client' = StartRun(client)
    /\ UNCHANGED <<accounts, paystackSecretKey, payments, subscriptions, organizations, now, ticks, reqs>>

\* part_001:187, 213-218: the button shown after a failed run
RetryVerification ==
    /\ client.page = "verification"
    /\ ~client.verifying /\ client.status = "failed"
    /\ client.runs >= 1 /\ client.runs < MaxRuns
    /\ client' = StartRun(client)
    /\ UNCHANGED <<accounts, paystackSecretKey, payments, subscriptions, organizations, now, ticks, reqs>>

\* part_001:49-52: the two seconds are over and verifyPayment is called
DelayOver ==
    /\ client.pc = "delay"
    /\ client' = [client EXCEPT !.pc = "verifyPayment"]
    /\ UNCHANGED <<accounts, paystackSecretKey, payments, subscriptions, organizations, now, ticks, reqs>>

\* part_001:52-66 and 108-118: verifyPayment resolves or throws; on a
\* success the organization is fetched, otherwise the run ends as failed
VerifyPaymentReturns ==
    /\ client.pc = "verifyPayment"
    /\ \E res \in VerifyResults :
          client' =
             IF ~res.threw /\ res.success /\ res.status = "success"
             THEN [client EXCEPT !.status = "success", !.result = res,
                                 !.pc = "getOrganization"]
             ELSE [client EXCEPT !.status = "failed", !.result = res,
                                 !.error = "set", !.verifying = FALSE,
                                 !.pc = "idle"]
    /\ UNCHANGED <<accounts, paystackSecretKey, payments, subscriptions, organizations, now, ticks, reqs>>

\* part_001:63-118: the organization is returned, is not returned, or the
\* fetch throws (without appState.orgId nothing is fetched); then the two
\* storage entries are removed and the run ends
GetOrganizationReturns ==
    /\ client.pc = "getOrganization"
    /\ \E outcome \in {"org", "noOrg", "throws"} :
       \E orgStatus \in {"active", "trial"} :
          client' =
             [client EXCEPT
                !.subscriptionStatus =
                    IF client.orgId = NoValue THEN @
                    ELSE IF outcome = "org" THEN orgStatus ELSE "active",
                !.subscriptionPlan =
                    IF client.orgId = NoValue THEN @
                    ELSE client.paymentDetails.planId,
                !.sessionStorage = NoPending,
                !.localStorage = NoPending,
                !.verifying = FALSE,
                !.pc = "idle"]
    /\ UNCHANGED <<accounts, paystackSecretKey, payments, subscriptions, organizations, now, ticks, reqs>>

\* part_001:204-212
BackToPlans ==
    /\ client.page = "verification"
    /\ ~client.verifying /\ client.status = "failed"
    /\ client' = [client EXCEPT !.page = "subscribe"]
    /\ UNCHANGED <<accounts, paystackSecretKey, payments, subscriptions, organizations, now, ticks, reqs>>

\* part_001:121-127, 147, 170-173
handleGoToDashboard ==
    /\ client.page = "verification"
    /\ ~client.verifying /\ client.status = "success"
    /\ client' = [client EXCEPT !.page = "dashboard"]
    /\ UNCHANGED <<accounts, paystackSecretKey, payments, subscriptions, organizations, now, ticks, reqs>>

\* The page opens on the callback URL with what the checkout page left in
\* the two storages; the service is not part of this specification
ClientInit ==
    /\ paystackSecretKey = NoSecret
    /\ payments = [r \in References |-> NoPayment]
    /\ subscriptions = {}
    /\ organizations = [o \in Orgs |-> TrialOrganization]
    /\ now = [y |-> 2024, m |-> 1, d |-> 30]
    /\ ticks = 0
    /\ reqs = [p \in Slots |-> IdleReq]
    /\ accounts = NoAccounts
    /\ \E ref \in {NoValue, "R1"}, tx \in {NoValue, "T1"},
          st \in {NoValue, "successful"}, org \in {NoValue, "O1"} :
       \E ss \in PendingPayments, ls \in PendingPayments :
          client = [NoClient EXCEPT !.page = "callback",
                       !.reference = ref, !.transactionId = tx, !.urlStatus = st,
                       !.orgId = org, !.sessionStorage = ss, !.localStorage = ls]

ClientNext ==
    \/ PaymentCallbackMount
    \/ RedirectToDashboard
    \/ VerificationMount
    \/ RetryVerification
    \/ DelayOver
    \/ VerifyPaymentReturns
    \/ GetOrganizationReturns
    \/ BackToPlans
    \/ handleGoToDashboard

ClientSpec == ClientInit /\ [][ClientNext]_vars

----------------------------------------------------------------------------
(* The create-user function, part_002 *)

Emails == {"ada@shop.io", "Ada@shop.io", "bea@shop.io"}

\* String.prototype.toLowerCase on the addresses of the model
toLowerCase(email) == IF email = "Ada@shop.io" THEN "ada@shop.io" ELSE email

\* part_002:49, the test of one listed user
SameEmail(u, email) == toLowerCase(u.email) = toLowerCase(email)

\* The user and the profile an earlier call created
ExistingUser == [id |-> 0, email |-> "Ada@shop.io"]

Call(p) == accounts.calls[p]

SetCall(p, call) == [accounts EXCEPT !.calls[p] = call]

AnswerCall(p, status) ==
    [accounts EXCEPT !.calls[p].pc = "done", !.calls[p].http = status]

\* part_002:18-48: the body is read and validated (what is thrown is
\* answered 400 at part_002:114-126), then listUsers is called
CreateUserRequest(p) ==
    /\ Call(p).pc = "idle"
    /\ \A q \in Slots : q < p => Call(q).pc # "idle"
    /\ \E valid \in BOOLEAN, email \in Emails :
          accounts' =
             IF ~valid
             THEN SetCall(p, [NoCall EXCEPT !.pc = "done", !.http = 400])
             ELSE SetCall(p, [NoCall EXCEPT !.pc = "listUsers", !.email = email])
    /\ UNCHANGED <<client, paystackSecretKey, payments, subscriptions, organizations, now, ticks, reqs>>

\* part_002:48-66: listUsers returns the users, or an error that is not
\* read (existingUser is then null and userExists undefined), or throws;
\* with a user of that address the call is answered 400, otherwise
\* createUser is called
ListUsersReturns(p) ==
    /\ Call(p).pc = "listUsers"
    /\ \E outcome \in {"ok", "error", "throw"} :
          accounts' =
             IF outcome = "throw" THEN AnswerCall(p, 400)
             ELSE IF /\ outcome = "ok"
                     /\ \E u \in accounts.authUsers : SameEmail(u, Call(p).email)
             THEN AnswerCall(p, 400)
             ELSE [accounts EXCEPT !.calls[p].pc = "createUser"]
    /\ UNCHANGED <<client, paystackSecretKey, payments, subscriptions, organizations, now, ticks, reqs>>

\* part_002:56-88: createUser returns the new user or an error (the auth
\* service refuses an address that is registered); after the user, the
\* insert of the profile is sent
CreateUserReturns(p) ==
    /\ Call(p).pc = "createUser"
    /\ \E outcome \in {"ok", "error"} :
          accounts' =
             IF \/ outcome = "error"
                \/ \E u \in accounts.authUsers : SameEmail(u, Call(p).email)
             THEN AnswerCall(p, 400)
             ELSE [accounts EXCEPT
                     !.authUsers = @ \cup {[id |-> p, email |-> Call(p).email]},
                     !.calls[p].pc = "insert",
                     !.calls[p].authUserId = p]
    /\ UNCHANGED <<client, paystackSecretKey, payments, subscriptions, organizations, now, ticks, reqs>>

\* part_002:76-112: the insert of the profile is applied and the call is
\* answered 200, or it fails and deleteUser is called
InsertReturns(p) ==
    /\ Call(p).pc = "insert"
    /\ \E outcome \in {"ok", "error"} :
          accounts' =
             IF outcome = "ok"
             THEN [accounts EXCEPT
                     !.user_profiles = @ \cup {[id |-> Call(p).authUserId,
                                                email |-> Call(p).email]},
                     !.calls[p].pc = "done", !.calls[p].http = 200]
             ELSE [accounts EXCEPT !.calls[p].pc = "deleteUser"]
    /\ UNCHANGED <<client, paystackSecretKey, payments, subscriptions, organizations, now, ticks, reqs>>

\* part_002:94-126: deleteUser removes the auth user, or returns an error
\* that is not read, or throws; the call is answered 400 in each case
DeleteUserReturns(p) ==
    /\ Call(p).pc = "deleteUser"
    /\ \E outcome \in {"ok", "error", "throw"} :
          accounts' =
             [AnswerCall(p, 400) EXCEPT
                !.authUsers = IF outcome = "ok"
                              THEN {u \in @ : u.id # Call(p).authUserId}
                              ELSE @]
    /\ UNCHANGED <<client, paystackSecretKey, payments, subscriptions, organizations, now, ticks, reqs>>

CreateUser(p) ==
    \/ CreateUserRequest(p)
    \/ ListUsersReturns(p)
    \/ CreateUserReturns(p)
    \/ InsertReturns(p)
    \/ DeleteUserReturns(p)

\* The function is called with no user registered or with one; the
\* payments service and the page are not part of this specification
UsersInit ==
    /\ paystackSecretKey = NoSecret
    /\ payments = [r \in References |-> NoPayment]
    /\ subscriptions = {}
    /\ organizations = [o \in Orgs |-> TrialOrganization]
    /\ now = [y |-> 2024, m |-> 1, d |-> 30]
    /\ ticks = 0
    /\ reqs = [p \in Slots |-> IdleReq]
    /\ client = NoClient
    /\ \E existing \in {{}, {ExistingUser}} :
          accounts = [NoAccounts EXCEPT !.authUsers = existing,
                                        !.user_profiles = existing]

UsersNext == \E p \in Slots : CreateUser(p)

UsersSpec == UsersInit /\ [][UsersNext]_vars


----------------------------------------------------------------------------
(* Properties *)

Terminal == {"completed", "failed"}

Stepped(p) == reqs'[p] # reqs[p]

\* C1. Terminal monotonicity: once the payment record of a reference is
\* completed or failed, no step of any verify request or webhook delivery
\* changes its status or its transaction_id.
C1_TerminalMonotonicity ==
    [][\A ref \in References :
          (payments[ref] # NoPayment /\ payments[ref].status \in Terminal)
          => /\ payments'[ref].status = payments[ref].status
             /\ payments'[ref].transaction_id = payments[ref].transaction_id]_vars

\* C2. Idempotence: once a subscription row carries a payment reference, a
\* later application of the same reference leaves its start_date and
\* end_date as the first application computed them.
C2_Idempotence ==
    [][\A s \in subscriptions : \A t \in subscriptions' :
          (s.organization_id = t.organization_id
              /\ s.payment_reference = t.payment_reference)
          => (t.start_date = s.start_date /\ t.end_date = s.end_date)]_vars

Confirmed(p) == reqs[p].pc = "done" /\ reqs[p].upsert = "ok"

\* The row a request wrote, read from its locals and the payment record
RowOf(p) ==
    SubscriptionData(payments[reqs[p].reference], reqs[p].reference,
                     reqs[p].startDate, reqs[p].endDate)

\* The final rows of the sequential executions of p and q in which each
\* reads the clock as it did: the row of the one that read it last (of
\* either, when both read the same day)
SequentialRows(p, q) ==
    {RowOf(x) : x \in {y \in {p, q} :
                         \A z \in {p, q} : DateLE(reqs[z].startDate, reqs[y].startDate)}}

\* C3. Race safety: when one verify request and one webhook delivery for
\* the same reference have both written the subscription and finished, the
\* subscription row is the final row of a sequential execution of the two.
C3_RaceSafety ==
    \A p, q \in Slots :
        (/\ reqs[p].kind = "verify" /\ reqs[q].kind = "webhook"
         /\ Confirmed(p) /\ Confirmed(q)
         /\ reqs[p].reference = reqs[q].reference)
        => \E s \in subscriptions : s \in SequentialRows(p, q)

\* C4. There is at most one subscription row per organization_id.
C4_OneRowPerOrganization ==
    \A s, t \in subscriptions : s.organization_id = t.organization_id => s = t

\* Two confirmations of two references of one organization have written
\* the subscription, and one row stands
C4_Witness ==
    /\ \E p, q \in Slots :
          /\ Confirmed(p) /\ Confirmed(q)
          /\ reqs[p].reference # reqs[q].reference
          /\ reqs[p].kind = "verify" /\ reqs[q].kind = "webhook"
    /\ Cardinality(subscriptions) = 1

\* C5. A webhook request whose signature header is not the HMAC of its
\* body under the configured key, the absent header included, is answered
\* 401 in the step that reads it, with the three tables unchanged; and no
\* webhook request goes past the signature check without that HMAC.
C5_BadSignatureRejected ==
    [][\A p \in Slots :
          /\ (/\ reqs[p].pc = "wReceived" /\ Stepped(p)
              /\ paystackSecretKey # NoSecret
              /\ reqs[p].signature # createHmacSha512(paystackSecretKey, reqs[p].body))
             => (/\ reqs'[p].pc = "done" /\ reqs'[p].http = 401
                 /\ UNCHANGED store)
          /\ reqs'[p].pc \in {"wSelect", "wUpdate", "wUpsert"}
             => reqs'[p].signature = createHmacSha512(paystackSecretKey, reqs'[p].body)]_vars

\* A webhook request was answered 401, which index.ts:461-467 alone does
C5_Witness ==
    \E p \in Slots :
        /\ reqs[p].kind = "webhook" /\ reqs[p].pc = "done" /\ reqs[p].http = 401
        /\ paystackSecretKey # NoSecret

\* C6. A verify request that finds no payment record for its reference is
\* answered 404 in that step, whatever the gateway reported, and no step
\* of it up to and including the lookup changes any of the three tables.
C6_VerifyWithoutRecord ==
    [][\A p \in Slots :
          /\ (/\ reqs[p].pc = "vSelect" /\ Stepped(p)
              /\ payments[reqs[p].reference] = NoPayment)
             => (/\ reqs'[p].pc = "done" /\ reqs'[p].http = 404
                 /\ UNCHANGED store)
          /\ (reqs[p].pc \in {"vPoll", "vWait", "vSelect"} /\ Stepped(p))
             => UNCHANGED store]_vars

\* A verify of a reference without a record was answered 404 after the
\* gateway reported success, and no subscription exists
C6_Witness ==
    \E p \in Slots :
        /\ reqs[p].kind = "verify" /\ reqs[p].pc = "done" /\ reqs[p].http = 404
        /\ payments[reqs[p].reference] = NoPayment
        /\ reqs[p].paystackData.data_status = "success"
        /\ subscriptions = {}

\* C7. When the update of the organization returns an error or throws, the
\* verify request, whose upsert of the subscription had succeeded, is
\* answered 200 in that step; the three tables stay as they are (nothing
\* is rolled back, the organization keeps its subscription row and its
\* previous projection) and the update is not tried again.
C7_OrgSyncFailureSwallowed ==
    [][\A p \in Slots :
          (/\ reqs[p].pc = "vOrg" /\ Stepped(p)
           /\ reqs'[p].orgUpdate \in {"error", "throw"})
          => (/\ reqs'[p].pc = "done" /\ reqs'[p].http = 200
              /\ reqs[p].upsert = "ok"
              /\ \E s \in subscriptions' :
                    s.organization_id = reqs[p].payment.organization_id
              /\ UNCHANGED store)]_vars

\* A verify was answered 200 after the update of the organization threw:
\* its subscription row and the completed status are in the store, the
\* organization is as it was
C7_Witness ==
    \E p \in Slots :
        /\ reqs[p].kind = "verify" /\ reqs[p].pc = "done" /\ reqs[p].http = 200
        /\ reqs[p].orgUpdate = "throw"
        /\ RowOf(p) \in subscriptions
        /\ payments[reqs[p].reference].status = "completed"
        /\ organizations["O1"] = TrialOrganization

\* C8. A correctly signed webhook whose event is not charge.success is
\* answered 200 in the step that reads it, with the three tables unchanged.
C8_OtherEventsAcknowledged ==
    [][\A p \in Slots :
          (/\ reqs[p].pc = "wReceived" /\ Stepped(p)
           /\ paystackSecretKey # NoSecret
           /\ reqs[p].signature = createHmacSha512(paystackSecretKey, reqs[p].body)
           /\ reqs[p].body.json
           /\ reqs[p].body.event # "charge.success")
          => (/\ reqs'[p].pc = "done" /\ reqs'[p].http = 200
              /\ UNCHANGED store)]_vars

\* A webhook was answered 200 without its reference having been read,
\* which is the branch of index.ts:533-535
C8_Witness ==
    \E p \in Slots :
        /\ reqs[p].kind = "webhook" /\ reqs[p].pc = "done" /\ reqs[p].http = 200
        /\ reqs[p].reference = NoValue

\* C9. Every webhook request whose signature verifies and whose body is
\* JSON is answered 200.
C9_SignedWebhookAcknowledged ==
    [][\A p \in Slots :
          (/\ reqs[p].kind = "webhook" /\ reqs[p].pc # "done" /\ reqs'[p].pc = "done"
           /\ reqs[p].signature = createHmacSha512(paystackSecretKey, reqs[p].body)
           /\ reqs[p].body.json)
          => reqs'[p].http = 200]_vars

\* C10. After a verify request whose gateway verification still failed on
\* the last attempt, the payment record of its reference is not pending.
C10_GatewayFailureCommitsFailed ==
    \A p \in Slots :
        (/\ reqs[p].kind = "verify" /\ reqs[p].pc = "done"
         /\ reqs[p].attempts = MaxAttempts
         /\ VerificationFailed(reqs[p].paystackData)
         /\ payments[reqs[p].reference] # NoPayment)
        => payments[reqs[p].reference].status # "pending"


\* C11. A subscription row carrying a payment reference exists only while
\* the payment record of that reference has the status completed.
C11_SubscriptionOnlyIfCompleted ==
    \A s \in subscriptions :
        /\ payments[s.payment_reference] # NoPayment
        /\ payments[s.payment_reference].status = "completed"

\* The date one calendar month after a date: the same day of the following
\* month, or that month's last day when it has no such day
CalendarMonthAfter(date) ==
    LET y2 == IF date.m = 12 THEN date.y + 1 ELSE date.y
        m2 == IF date.m = 12 THEN 1 ELSE date.m + 1
        last == DaysInMonth(y2, m2)
    IN  [y |-> y2, m |-> m2, d |-> IF date.d > last THEN last ELSE date.d]

\* The date one calendar year after a date: the same day and month of the
\* following year, or that month's last day when it has no such day
CalendarYearAfter(date) ==
    LET last == DaysInMonth(date.y + 1, date.m)
    IN  [y |-> date.y + 1, m |-> date.m,
         d |-> IF date.d > last THEN last ELSE date.d]

\* C12. Every subscription row of a monthly payment ends one calendar month
\* after its start date, and every row of a yearly payment ends one calendar
\* year after its start date.
C12_PeriodIsOneCycle ==
    \A s \in subscriptions :
        /\ s.billing_cycle = "monthly"
              => s.end_date = CalendarMonthAfter(s.start_date)
        /\ s.billing_cycle = "yearly"
              => s.end_date = CalendarYearAfter(s.start_date)

\* C13. While the gateway key is not configured, every webhook delivery
\* is answered 500 before anything of it is processed: no table changes in
\* that step and no delivery gets as far as the select of the payment record.
C13_WebhookRejectedWithoutKey ==
    [][paystackSecretKey = NoSecret =>
         \A p \in Slots :
            /\ (reqs[p].pc = "wReceived" /\ Stepped(p))
                  => (/\ reqs'[p].pc = "done" /\ reqs'[p].http = 500
                      /\ UNCHANGED store)
            /\ reqs'[p].kind = "webhook"
                  => reqs'[p].pc \in {"wReceived", "done"}]_vars

\* A delivery was answered 500 while the key was not configured
C13_Witness ==
    /\ paystackSecretKey = NoSecret
    /\ \E p \in Slots :
          /\ reqs[p].kind = "webhook" /\ reqs[p].pc = "done"
          /\ reqs[p].http = 500

InLoop(p) == reqs[p].kind = "verify" /\ reqs[p].pc \in {"vPoll", "vWait"}

\* C14. The polling loop of a verify request ends; a request that entered
\* the loop has made between 1 and MaxAttempts gateway calls, each turn of
\* the loop adds one call, and after an answer that is a success no
\* further call is made.
C14_PollingLoopTerminates ==
    /\ [](\A p \in Slots :
             /\ reqs[p].attempts \in 0..MaxAttempts
             /\ (reqs[p].kind = "verify" /\ reqs[p].pc \notin {"idle", "done"})
                   => reqs[p].attempts >= 1)
    /\ [][\A p \in Slots :
             /\ reqs'[p].attempts \in {reqs[p].attempts, reqs[p].attempts + 1}
             /\ (/\ reqs[p].kind = "verify"
                 /\ reqs[p].paystackData.ok /\ reqs[p].paystackData.status
                 /\ reqs[p].paystackData.data_status = "success")
                   => (/\ reqs'[p].attempts = reqs[p].attempts
                       /\ reqs'[p].pc \notin {"vPoll", "vWait"})]_vars
    /\ \A p \in Slots : InLoop(p) ~> ~InLoop(p)

\* A request left the loop on the success of its second call
C14_Witness ==
    \E p \in Slots :
        /\ reqs[p].kind = "verify" /\ reqs[p].pc = "vSelect"
        /\ reqs[p].attempts = 2
        /\ reqs[p].paystackData.data_status = "success"

\* C15, as stated. An answer of the gateway whose transaction status is
\* failed ends the loop: the request neither waits nor calls again, and it
\* goes on with that answer.
C15_StopsOnDefinitiveFailure ==
    [][\A p \in Slots :
          (/\ reqs[p].pc = "vPoll" /\ Stepped(p)
           /\ ~(reqs'[p].pc = "done" /\ reqs'[p].http = 500)
           /\ reqs'[p].received.data_status = "failed")
          => (/\ reqs'[p].pc \notin {"vWait", "vPoll"}
              /\ reqs'[p].paystackData = reqs'[p].received)]_vars

\* C15, amended. Only a success ends the loop early: after any other
\* answer, a definitive failure included, the request waits and calls again
\* while it has made fewer than MaxAttempts calls, and after the last call
\* it goes on; the answer it goes on with is the last one received.
C15_RetriesUntilSuccessOrExhausted ==
    /\ [](\A p \in Slots : reqs[p].paystackData = reqs[p].received)
    /\ [][\A p \in Slots :
             (/\ reqs[p].pc = "vPoll" /\ Stepped(p)
              /\ ~(reqs'[p].pc = "done" /\ reqs'[p].http = 500))
             => LET resp == reqs'[p].received IN
                IF resp.ok /\ resp.status /\ resp.data_status = "success"
                THEN reqs'[p].pc = "vSelect"
                ELSE IF reqs[p].attempts < MaxAttempts
                     THEN reqs'[p].pc = "vWait"
                     ELSE /\ reqs'[p].pc \in {"vSelect", "done"}
                          /\ reqs'[p].pc = "done" => reqs'[p].http = 400]_vars

\* A request called the gateway again after the answer failed
C15_Witness ==
    \E p \in Slots :
        /\ reqs[p].kind = "verify" /\ reqs[p].pc = "vPoll"
        /\ reqs[p].attempts = 2
        /\ reqs[p].received.ok /\ reqs[p].received.status
        /\ reqs[p].received.data_status = "failed"

\* C16. A subscription row of a payment whose billing cycle is neither
\* monthly nor yearly has the period the code gives a monthly payment; and
\* a verify request and a webhook delivery that confirm the same reference
\* from the same start date computed the same end date.
C16_UnknownCycleIsMonthly ==
    /\ \A s \in subscriptions :
          s.billing_cycle \notin {"monthly", "yearly"}
             => s.end_date = setMonthPlusOne(s.start_date)
    /\ \A p, q \in Slots :
          (/\ reqs[p].kind = "verify" /\ reqs[q].kind = "webhook"
           /\ reqs[p].reference = reqs[q].reference
           /\ reqs[p].startDate # NoDate
           /\ reqs[p].startDate = reqs[q].startDate)
          => reqs[p].endDate = reqs[q].endDate

\* C17. When no request is in flight and no update of the organizations
\* table has failed, the organization of every subscription row carries
\* that row's status, plan and end date.
C17_ProjectionFollowsSubscription ==
    (/\ \A p \in Slots : reqs[p].pc \in {"idle", "done"}
     /\ \A p \in Slots : reqs[p].orgUpdate \notin {"error", "throw"})
    => \A s \in subscriptions :
          LET org == organizations[s.organization_id] IN
          /\ org.subscription_status = s.status
          /\ org.subscription_plan = s.plan_id
          /\ org.subscription_end_date = s.end_date

\* C18. An initialize request without an Authorization header, or with a
\* token the auth service does not accept, is answered 401 in the step that
\* tests it, with no table changed; only a request with a valid credential
\* reaches the gateway call or the insert, and only such a request creates
\* a payment record.
C18_InitializeRequiresCredential ==
    [][/\ \A p \in Slots :
            /\ (/\ reqs[p].pc = "iAuth" /\ Stepped(p)
                /\ reqs[p].authHeader \in {"none", "invalid"})
                  => (/\ reqs'[p].pc = "done" /\ reqs'[p].http = 401
                      /\ UNCHANGED store)
            /\ reqs'[p].pc \in {"iGateway", "iInsert"}
                  => reqs'[p].authHeader = "valid"
       /\ \A ref \in References :
            (payments[ref] = NoPayment /\ payments'[ref] # NoPayment)
               => \E p \in Slots :
                     /\ reqs[p].pc = "iInsert" /\ Stepped(p)
                     /\ reqs[p].reference = ref
                     /\ reqs[p].authHeader = "valid"]_vars

\* An initialize request was answered 401
C18_Witness ==
    \E p \in Slots :
        /\ reqs[p].kind = "initialize" /\ reqs[p].pc = "done"
        /\ reqs[p].http = 401
        /\ payments[reqs[p].reference] = NoPayment

\* C19, as stated. While the gateway key is not configured, every
\* initialize request and every verify request that is answered is
\* answered 500.
C19_EveryRequestAnswered500 ==
    paystackSecretKey = NoSecret =>
       \A p \in Slots :
          (reqs[p].kind \in {"initialize", "verify"} /\ reqs[p].pc = "done")
             => reqs[p].http = 500

\* C19, amended. While the gateway key is not configured, an initialize
\* request that carries a valid credential and a verify request that names
\* a reference are answered 500; no request gets as far as a gateway call
\* and no step changes a table.
C19_NoKeyAnswered500 ==
    [][paystackSecretKey = NoSecret =>
         /\ \A p \in Slots :
               /\ (/\ reqs[p].pc = "iAuth" /\ Stepped(p)
                   /\ reqs[p].authHeader = "valid")
                     => (reqs'[p].pc = "done" /\ reqs'[p].http = 500)
               /\ (/\ reqs[p].pc = "idle" /\ reqs'[p].kind = "verify"
                   /\ reqs'[p].reference # "")
                     => (reqs'[p].pc = "done" /\ reqs'[p].http = 500)
               /\ reqs'[p].pc \notin {"iGateway", "iInsert", "vPoll", "vWait"}
               /\ reqs'[p].attempts = 0
         /\ UNCHANGED store]_vars

\* Without a key, an initialize request and a verify request were each
\* answered 500
C19_Witness ==
    /\ paystackSecretKey = NoSecret
    /\ \E p, q \in Slots :
          /\ reqs[p].kind = "initialize" /\ reqs[p].pc = "done"
          /\ reqs[p].http = 500
          /\ reqs[q].kind = "verify" /\ reqs[q].pc = "done"
          /\ reqs[q].http = 500 /\ reqs[q].reference \in References

\* C20. When an initialize request is answered with a success, a payment
\* record with its reference exists and is pending; and a payment record
\* comes into being only by the insert of an initialize request, as pending.
C20_InitializedPaymentIsRecorded ==
    [][/\ \A p \in Slots :
            (/\ reqs[p].pc = "iInsert" /\ Stepped(p)
             /\ reqs'[p].pc = "done" /\ reqs'[p].http = 200)
            => (/\ payments'[reqs[p].reference] # NoPayment
                /\ payments'[reqs[p].reference].status = "pending")
       /\ \A ref \in References :
            (payments[ref] = NoPayment /\ payments'[ref] # NoPayment)
               => (/\ payments'[ref].status = "pending"
                   /\ \E p \in Slots :
                         /\ reqs[p].pc = "iInsert" /\ Stepped(p)
                         /\ reqs[p].reference = ref)]_vars

\* C21. A webhook delivery that has committed the subscription of its
\* reference has attempted the update of the organization by the time it
\* is answered.
C21_WebhookSyncsOrganization ==
    \A p \in Slots :
        (/\ reqs[p].kind = "webhook" /\ reqs[p].pc = "done"
         /\ reqs[p].upsert = "ok")
        => reqs[p].orgUpdate # "none"

\* The steps of a verify request in the order of the handler
VerifyOrder ==
    {<<"idle", "vPoll">>, <<"idle", "done">>,
     <<"vPoll", "vWait">>, <<"vPoll", "vSelect">>, <<"vPoll", "done">>,
     <<"vWait", "vPoll">>,
     <<"vSelect", "vUpdate">>, <<"vSelect", "done">>,
     <<"vUpdate", "vUpsert">>, <<"vUpdate", "done">>,
     <<"vUpsert", "vOrg">>, <<"vUpsert", "done">>,
     <<"vOrg", "done">>}

\* C22. A verify request goes through gateway verify, payments update,
\* subscriptions upsert and organizations update in this order, each table
\* written in its own step only. The upsert is sent only when the status
\* computed from the gateway's answer is completed; with any other answer
\* the update sent is to failed, the request is answered in that step, and
\* it has sent no upsert and no organizations update.
C22_VerifyStepOrder ==
    [][\A p \in Slots :
          (reqs'[p].kind = "verify" /\ Stepped(p)) =>
             /\ <<reqs[p].pc, reqs'[p].pc>> \in VerifyOrder
             /\ reqs[p].pc # "vUpdate" => UNCHANGED payments
             /\ reqs[p].pc # "vUpsert" => UNCHANGED subscriptions
             /\ reqs[p].pc # "vOrg" => UNCHANGED organizations
             /\ reqs[p].pc = "vUpdate" =>
                   IF reqs[p].paystackData.data_status = "success"
                   THEN /\ reqs'[p].pc = "vUpsert"
                        /\ \/ UNCHANGED payments
                           \/ payments'[reqs[p].reference].status = "completed"
                   ELSE /\ reqs'[p].pc = "done" /\ reqs'[p].http = 200
                        /\ reqs'[p].upsert = "none" /\ reqs'[p].orgUpdate = "none"
                        /\ \/ UNCHANGED payments
                           \/ payments'[reqs[p].reference].status = "failed"]_vars

\* A verify request whose gateway status was failed has been answered: the
\* record is failed, and there is no subscription and no projection
C22_Witness ==
    \E p \in Slots :
        /\ reqs[p].kind = "verify" /\ reqs[p].pc = "done" /\ reqs[p].http = 200
        /\ reqs[p].paystackData.data_status = "failed"
        /\ payments[reqs[p].reference].status = "failed"
        /\ subscriptions = {}
        /\ organizations["O1"] = TrialOrganization

\* C23. The update of the organization is sent only by a request whose own
\* subscriptions upsert has been applied: a request waits for the answer of
\* that update only with its row in the table, a request whose upsert
\* failed never sends it, and no other step writes the organizations table.
C23_SyncOnlyAfterUpsert ==
    [][/\ \A p \in Slots :
            /\ reqs'[p].pc = "vOrg" => reqs'[p].upsert = "ok"
            /\ reqs'[p].orgUpdate # "none" => reqs'[p].upsert = "ok"
            /\ (reqs[p].pc = "vUpsert" /\ reqs'[p].pc = "vOrg")
                  => \E s \in subscriptions' :
                        /\ s.payment_reference = reqs[p].reference
                        /\ s.end_date = reqs'[p].endDate
       /\ organizations' # organizations
             => \E p \in Slots :
                   /\ reqs[p].kind = "verify" /\ reqs[p].pc = "vOrg"
                   /\ Stepped(p) /\ reqs[p].upsert = "ok"]_vars

\* One request's upsert failed and it sent no update of the organization;
\* another's was applied and its update of the organization as well
C23_Witness ==
    \E p, q \in Slots :
        /\ reqs[p].pc = "done" /\ reqs[p].upsert = "error"
        /\ reqs[p].kind = "verify" /\ reqs[p].orgUpdate = "none"
        /\ reqs[q].pc = "done" /\ reqs[q].upsert = "ok"
        /\ reqs[q].orgUpdate = "ok"
        /\ organizations["O1"].subscription_status = "active"

\* C24. A webhook delivery that was accepted as a signed charge.success
\* event and whose reference has no payment record is answered in the step
\* that finds no record, and no step of it changes a table.
C24_WebhookWithoutRecord ==
    [][\A p \in Slots :
          /\ (reqs[p].pc = "wReceived" /\ Stepped(p)) => UNCHANGED store
          /\ (/\ reqs[p].pc = "wSelect" /\ Stepped(p)
              /\ payments[reqs[p].reference] = NoPayment)
             => (/\ reqs'[p].pc = "done" /\ reqs'[p].http = 200
                 /\ reqs'[p].upsert = "none" /\ reqs'[p].orgUpdate = "none"
                 /\ UNCHANGED store)]_vars

\* A signed charge.success delivery for a reference without a payment
\* record has been answered
C24_Witness ==
    \E p \in Slots :
        /\ reqs[p].kind = "webhook" /\ reqs[p].pc = "done" /\ reqs[p].http = 200
        /\ reqs[p].reference \in References
        /\ payments[reqs[p].reference] = NoPayment
        /\ reqs[p].upsert = "none"

\* The columns of a payment record that no confirmation writes
Immutable(row) ==
    <<row.reference, row.organization_id, row.plan_id, row.billing_cycle,
      row.amount, row.currency, row.provider>>

\* C25. No step removes a payment record or changes its reference,
\* organization, plan, billing cycle, amount, currency or provider; and a
\* step of a verify request or of a webhook delivery changes at most the
\* status, verified_at and transaction_id of the record of its own
\* reference.
C25_ConfirmationWritesThreeColumns ==
    [][/\ \A ref \in References :
            payments[ref] # NoPayment
               => (/\ payments'[ref] # NoPayment
                   /\ Immutable(payments'[ref]) = Immutable(payments[ref]))
       /\ \A p \in Slots :
            (reqs'[p].kind \in {"verify", "webhook"} /\ Stepped(p))
               => \A ref \in References :
                     payments'[ref] # payments[ref]
                        => (/\ ref = reqs[p].reference
                            /\ reqs[p].pc \in {"vUpdate", "wUpdate"}
                            /\ payments[ref] # NoPayment)]_vars

\* One record has been confirmed while the record of the other reference
\* is as it was created
C25_Witness ==
    /\ payments["R1"] # NoPayment /\ payments["R2"] # NoPayment
    /\ payments["R1"].status = "completed"
    /\ payments["R1"].verified_at # NoDate
    /\ payments["R2"].status = "pending"
    /\ payments["R2"].verified_at = NoDate

\* C26. While a verify request is in its polling loop it has read nothing
\* from the store and its steps write nothing to it; once it has gone on to
\* the select it makes no further gateway call and waits no more.
C26_PollingPrecedesStore ==
    [][\A p \in Slots :
          (reqs'[p].kind = "verify" /\ Stepped(p)) =>
             /\ reqs[p].pc \in {"idle", "vPoll", "vWait"}
                   => (/\ UNCHANGED store
                       /\ reqs'[p].pc \in {"vPoll", "vWait", "vSelect"}
                             => reqs'[p].payment = NoPayment)
             /\ reqs[p].pc \in {"vSelect", "vUpdate", "vUpsert", "vOrg"}
                   => (/\ reqs'[p].pc \notin {"vPoll", "vWait"}
                       /\ reqs'[p].attempts = reqs[p].attempts
                       /\ reqs'[p].received = reqs[p].received)]_vars

\* A request that made three calls and waited twice has read the payment
\* record and is about to write it
C26_Witness ==
    \E p \in Slots :
        /\ reqs[p].kind = "verify" /\ reqs[p].pc = "vUpdate"
        /\ reqs[p].attempts = MaxAttempts
        /\ reqs[p].payment # NoPayment

\* C27. The status write of a confirmation applies only to a record that is
\* still pending: a request that read its record as pending and sends its
\* update after another request has made the record completed or failed
\* leaves the status and the transaction id of the record as they are.
C27_ConditionalStatusWrite ==
    [][\A p \in Slots :
          (/\ reqs[p].pc \in {"vUpdate", "wUpdate"} /\ Stepped(p)
           /\ reqs[p].payment.status = "pending"
           /\ payments[reqs[p].reference].status \in Terminal)
          => (/\ payments'[reqs[p].reference].status
                    = payments[reqs[p].reference].status
              /\ payments'[reqs[p].reference].transaction_id
                    = payments[reqs[p].reference].transaction_id)]_vars

\* C28. Every subscription row carries the reference of a stored payment
\* record and that record's organization, plan, billing cycle and amount,
\* and has the status active; the row a confirmation writes is the one of
\* its own reference.
C28_RowFromStoredPayment ==
    /\ [](\A s \in subscriptions :
             /\ s.payment_reference \in References
             /\ payments[s.payment_reference] # NoPayment
             /\ s.organization_id = payments[s.payment_reference].organization_id
             /\ s.plan_id = payments[s.payment_reference].plan_id
             /\ s.billing_cycle = payments[s.payment_reference].billing_cycle
             /\ s.amount = payments[s.payment_reference].amount
             /\ s.status = "active")
    /\ [][\A p \in Slots :
             (/\ reqs[p].pc \in {"vUpsert", "wUpsert"} /\ Stepped(p)
              /\ reqs'[p].upsert = "ok")
             => \E s \in subscriptions' :
                   /\ s.payment_reference = reqs[p].reference
                   /\ s.organization_id = payments[reqs[p].reference].organization_id
                   /\ s.start_date = reqs[p].startDate]_vars

\* The row of the organization was written for the second reference, whose
\* plan and billing cycle differ from the first's
C28_Witness ==
    \E s \in subscriptions :
        /\ s.payment_reference = "R2"
        /\ s.plan_id = payments["R2"].plan_id
        /\ payments["R1"] # NoPayment
        /\ s.plan_id # payments["R1"].plan_id

\* C29. When the subscriptions upsert of a verify request fails, the
\* request is answered 200 in that step without having sent the update of
\* the organization, and the step changes no table: the payment record
\* keeps the status the request's update gave it and the subscriptions
\* table is as it was.
C29_UpsertFailureSwallowed ==
    [][\A p \in Slots :
          (/\ reqs[p].pc = "vUpsert" /\ Stepped(p)
           /\ reqs'[p].upsert = "error")
          => (/\ reqs[p].paystackData.data_status = "success"
              /\ reqs'[p].pc = "done" /\ reqs'[p].http = 200
              /\ reqs'[p].orgUpdate = "none"
              /\ UNCHANGED store)]_vars

\* A verify request whose upsert failed has been answered 200: its record
\* is completed and there is no subscription row
C29_Witness ==
    \E p \in Slots :
        /\ reqs[p].kind = "verify" /\ reqs[p].pc = "done"
        /\ reqs[p].upsert = "error" /\ reqs[p].http = 200
        /\ reqs[p].orgUpdate = "none"
        /\ payments[reqs[p].reference].status = "completed"
        /\ subscriptions = {}
        /\ organizations["O1"] = TrialOrganization

\* C30. The pendingPayment entries of the two storages change only in the
\* step that ends a run whose verifyPayment resolved to success with status
\* success, and that step removes both; the step of PaymentCallback and a
\* run that failed or threw leave them and the payment details in place,
\* so that a retry runs with the same details; and every run ends with
\* verifying false and with status success or failed.
C30_PendingPaymentKeptUntilSuccess ==
    [][/\ (\/ client'.sessionStorage # client.sessionStorage
           \/ client'.localStorage # client.localStorage)
             => (/\ client.pc = "getOrganization"
                 /\ client.result.success /\ client.result.status = "success"
                 /\ ~client.result.threw
                 /\ client'.status = "success"
                 /\ client'.sessionStorage = NoPending
                 /\ client'.localStorage = NoPending)
       /\ client.page = "callback"
             => (/\ client'.sessionStorage = client.sessionStorage
                 /\ client'.localStorage = client.localStorage)
       /\ client.paymentDetails # NoDetails
             => client'.paymentDetails = client.paymentDetails
       /\ (client.pc # "idle" /\ client'.pc = "idle")
             => (/\ ~client'.verifying
                 /\ client'.status \in {"success", "failed"}
                 /\ client'.status = "success"
                       <=> (/\ client'.result.success
                            /\ client'.result.status = "success"
                            /\ ~client'.result.threw)
                 /\ client'.status = "success"
                       => (/\ client'.sessionStorage = NoPending
                           /\ client'.localStorage = NoPending))]_vars

\* A first run failed with the entry kept, the retry succeeded and the
\* entries are gone
C30_Witness ==
    /\ client.page = "verification" /\ client.runs = 2
    /\ ~client.verifying /\ client.status = "success"
    /\ client.paymentDetails.planId = "pro"
    /\ client.sessionStorage = NoPending
    /\ client.localStorage = NoPending

NoUrlReference == client.reference = NoValue /\ client.transactionId = NoValue

\* C31. PaymentVerification is rendered, and a verification run started,
\* only on a page whose URL carries a reference or a transaction id. With
\* neither, the effect of PaymentCallback ends the loading with no payment
\* details and sets the timer of the navigation to the dashboard; no run is
\* ever started and the page leaves only for the dashboard.
C31_VerificationNeedsReference ==
    /\ [](NoUrlReference
             => (/\ client.page \in {"callback", "dashboard"}
                 /\ client.paymentDetails = NoDetails
                 /\ client.runs = 0 /\ client.pc = "idle"
                 /\ client.status = NoValue))
    /\ [](client.redirectTimer => NoUrlReference)
    /\ [][(client.page = "callback" /\ client.loading /\ NoUrlReference)
             => (/\ client'.page = "callback" /\ ~client'.loading
                 /\ client'.redirectTimer)]_vars

\* A page opened without a reference, with a pendingPayment entry in store,
\* has gone to the dashboard without a verification run
C31_Witness ==
    /\ NoUrlReference
    /\ client.page = "dashboard" /\ client.runs = 0
    /\ client.sessionStorage.present /\ client.sessionStorage.json
    /\ client.redirectTimer

\* C32. Once a create-user call has been answered, an auth user it created
\* has a profile row of the same id; and a step of a call whose address is
\* that of a user another call created (letter case set aside) leaves the
\* auth users and the profiles as they are.
C32_NoAuthUserWithoutProfile ==
    /\ [](\A p \in Slots :
             accounts.calls[p].pc = "done"
                => \A u \in accounts.authUsers :
                      u.id = p => \E r \in accounts.user_profiles : r.id = u.id)
    /\ [][\A p \in Slots :
             (/\ accounts'.calls[p] # accounts.calls[p]
              /\ \E u \in accounts.authUsers :
                    /\ u.id # p
                    /\ toLowerCase(u.email) = toLowerCase(accounts'.calls[p].email))
             => (/\ accounts'.authUsers = accounts.authUsers
                 /\ accounts'.user_profiles = accounts.user_profiles)]_vars

============================================================================
